---- MODULE Spec2Model ----
(***************************************************************************)
(* Model of dp-secrets-helper: discovery of platforms and components from  *)
(* a directory convention (SystemManifests::new, Platform::new) and the    *)
(* lazy walk over every YAML document of every component                   *)
(* (SystemManifestsResourceIterator / PlatformResourceIterator).           *)
(*                                                                         *)
(* A file name is a sequence of tokens in which "." is a token of its own, *)
(* so that Path::file_stem and Path::extension are computed, not assumed.  *)
(* A path is a sequence of file names (its components).                    *)
(*                                                                         *)
(* The content of a manifest file is the sequence of documents that        *)
(* serde_yaml's document iterator hands out for it; a document either      *)
(* decodes into a DynamicObject or does not.                               *)
(***************************************************************************)
EXTENDS Naturals, Sequences, FiniteSets

VARIABLES fs, pc, pending, built, result, it, out, fsops, secrets, stdout, exit

vars == <<fs, pc, pending, built, result, it, out, fsops, secrets, stdout, exit>>

----------------------------------------------------------------------------
(* Bounds of the model. *)

\* entries listed in <root>/clusters
MaxPlatformEntries == 2
\* entries listed in a platform's manifests directory
MaxComponentEntries == 2
\* entries listed in the varied component manifest directory
MaxFileEntries == 2
\* documents held, in total, by the files of the varied component directory
MaxDocs == 3

----------------------------------------------------------------------------
(* Sequence helpers. *)

RECURSIVE Concat(_)
Concat(ss) == IF ss = <<>> THEN <<>> ELSE Head(ss) \o Concat(Tail(ss))

RECURSIVE LastDot(_)
\* position of the last "." token of a name, 0 when there is none
LastDot(n) ==
    IF n = <<>> THEN 0
    ELSE IF n[Len(n)] = "." THEN Len(n)
    ELSE LastDot(SubSeq(n, 1, Len(n) - 1))

NoName == <<"<none>">>
NoPath == <<NoName>>
NoIndex == 0

----------------------------------------------------------------------------
(* std::path: file_stem, extension, join. *)

\* Path::file_stem: the whole name when it has no "." or only a leading one,
\* otherwise the part before the final "."
file_stem(n) ==
    LET d == LastDot(n) IN
    IF d <= 1 THEN n ELSE SubSeq(n, 1, d - 1)

\* Path::extension: nothing when the name has no "." or only a leading one,
\* otherwise the part after the final "."
extension(n) ==
    LET d == LastDot(n) IN
    IF d <= 1 THEN NoName ELSE SubSeq(n, d + 1, Len(n))

join(path, n) == Append(path, n)

----------------------------------------------------------------------------
(* The filesystem: a tree of nodes.  A directory lists its entries in a    *)
(* fixed order; an entry of the listing may itself be an error (the        *)
(* io::Error that ReadDir yields instead of a DirEntry).                   *)

Missing == [kind |-> "missing"]
FileNode(openable, docs) == [kind |-> "file", openable |-> openable, docs |-> docs]
DirNode(listable, entries) == [kind |-> "dir", listable |-> listable, entries |-> entries]
Entry(n, node) == [err |-> FALSE, name |-> n, node |-> node]
ErrEntry == [err |-> TRUE, name |-> NoName, node |-> Missing]

RECURSIVE Lookup(_, _)
Lookup(node, path) ==
    IF path = <<>> THEN node
    ELSE IF node.kind # "dir" THEN Missing
    ELSE LET hits == {i \in DOMAIN node.entries :
                        /\ ~node.entries[i].err
                        /\ node.entries[i].name = Head(path)}
         IN IF hits = {} THEN Missing
            ELSE Lookup(node.entries[CHOOSE i \in hits : TRUE].node, Tail(path))

\* std::fs::metadata(path): Err when nothing is there, else the kind
metadata(fsys, path) ==
    LET n == Lookup(fsys, path) IN
    [ok |-> n.kind # "missing", is_dir |-> n.kind = "dir"]

\* Path::is_dir / Path::is_file
is_dir(fsys, path) == Lookup(fsys, path).kind = "dir"
is_file(fsys, path) == Lookup(fsys, path).kind = "file"

\* std::fs::read_dir(path): Err, or the listing, each item of which is
\* Ok(DirEntry) (with DirEntry::path = path/name) or Err
read_dir(fsys, path) ==
    LET n == Lookup(fsys, path) IN
    IF n.kind = "dir" /\ n.listable
    THEN [ok |-> TRUE,
          entries |-> [i \in DOMAIN n.entries |->
                         IF n.entries[i].err
                         THEN [ok |-> FALSE, path |-> NoPath]
                         ELSE [ok |-> TRUE, path |-> join(path, n.entries[i].name)]]]
    ELSE [ok |-> FALSE, entries |-> <<>>]

\* std::fs::File::open(path) followed by the document iterator over it
File_open(fsys, path) ==
    LET n == Lookup(fsys, path) IN
    IF n.kind = "file" /\ n.openable
    THEN [ok |-> TRUE, docs |-> n.docs]
    ELSE [ok |-> FALSE, docs |-> <<>>]

\* the filesystem operations the program performs, as logged in fsops
Op(op, path) == [op |-> op, path |-> path]

----------------------------------------------------------------------------
(* anyhow::Result: a value, or an error made of a chain of messages (the   *)
(* outermost context first), each message naming the path and the document *)
(* index it was given, if any.  ops are the filesystem operations made.    *)

Msg(text, path, index) == [msg |-> text, path |-> path, index |-> index]
Ok(v, ops) == [ok |-> TRUE, value |-> v, error |-> <<>>, ops |-> ops]
Err(e, ops) == [ok |-> FALSE, value |-> <<>>, error |-> e, ops |-> ops]
\* Result::with_context
with_context(r, text) ==
    IF r.ok THEN r ELSE Err(<<Msg(text, NoPath, NoIndex)>> \o r.error, r.ops)

RECURSIVE validate_directories_exist(_, _)
\* the validation as it would be if it looked at every path before it
\* reported the first that is not a directory
validate_directories_exist_all(fsys, directories) ==
    LET ops == [i \in DOMAIN directories |-> Op("metadata", directories[i])]
        bad == {i \in DOMAIN directories : ~is_dir(fsys, directories[i])}
    IN IF bad = {} THEN Ok(<<>>, ops)
       ELSE LET f == CHOOSE i \in bad : \A j \in bad : i <= j
            IN IF metadata(fsys, directories[f]).ok
               THEN Err(<<Msg("Path exists but is not a directory",
                              directories[f], NoIndex)>>, ops)
               ELSE Err(<<Msg("Directory does not exist",
                              directories[f], NoIndex)>>, ops)

validate_directories_exist(fsys, directories) ==
    IF directories = <<>> THEN Ok(<<>>, <<>>)
    ELSE LET dir == Head(directories)
             md == metadata(fsys, dir)
             op == <<Op("metadata", dir)>>
         IN IF md.ok
            THEN IF ~md.is_dir
                 THEN Err(<<Msg("Path exists but is not a directory", dir, NoIndex)>>, op)
                 ELSE LET rest == validate_directories_exist(fsys, Tail(directories))
                      IN [rest EXCEPT !.ops = op \o rest.ops]
            ELSE Err(<<Msg("Directory does not exist", dir, NoIndex)>>, op)

\* the loop over the entries of a listing, shared by the two name
\* discoveries: an entry that is an error ends it, a directory
\* contributes the file_stem of its path
RECURSIVE names_of_directories(_, _, _)
names_of_directories(fsys, entries, text) ==
    IF entries = <<>> THEN Ok(<<>>, <<>>)
    ELSE LET e == Head(entries) IN
         IF ~e.ok THEN Err(<<Msg(text, NoPath, NoIndex)>>, <<>>)
         ELSE LET op == <<Op("metadata", e.path)>>
                  rest == names_of_directories(fsys, Tail(entries), text)
              IN IF ~rest.ok THEN [rest EXCEPT !.ops = op \o rest.ops]
                 ELSE IF is_dir(fsys, e.path)
                      THEN Ok(<<file_stem(e.path[Len(e.path)])>> \o rest.value,
                              op \o rest.ops)
                      ELSE Ok(rest.value, op \o rest.ops)

get_cluster_names_from_clusters_directories(fsys, clusters_directory) ==
    LET rd == read_dir(fsys, clusters_directory)
        op == <<Op("read_dir", clusters_directory)>>
    IN IF ~rd.ok
       THEN Err(<<Msg("Failed to read clusters directory to discover platforms",
                      clusters_directory, NoIndex)>>, op)
       ELSE LET r == names_of_directories(fsys, rd.entries,
                                          "Failed to read a platform directory")
            IN [r EXCEPT !.ops = op \o r.ops]

get_component_names_from_manifest_directory(fsys, platform_manifests_directory) ==
    LET rd == read_dir(fsys, platform_manifests_directory)
        op == <<Op("read_dir", platform_manifests_directory)>>
    IN IF ~rd.ok
       THEN Err(<<Msg("Failed to read platform manifests directory to discover components",
                      platform_manifests_directory, NoIndex)>>, op)
       ELSE LET r == names_of_directories(fsys, rd.entries,
                                          "Failed to read the manifest directory")
            IN [r EXCEPT !.ops = op \o r.ops]

Component(name, manifests_directory) ==
    [name |-> name, manifests_directory |-> manifests_directory]

\* the map over the component names of Platform::new, collected into a
\* Result: the first component whose directory fails validation ends it
RECURSIVE collect_components(_, _, _)
collect_components(fsys, manifests_directory, names) ==
    IF names = <<>> THEN Ok(<<>>, <<>>)
    ELSE LET name == Head(names)
             component_manifests_directory == join(manifests_directory, name)
             v == with_context(
                    validate_directories_exist(fsys, <<component_manifests_directory>>),
                    "Failed to obtain component manifest directory")
         IN IF ~v.ok THEN v
            ELSE LET rest == collect_components(fsys, manifests_directory, Tail(names))
                 IN IF ~rest.ok THEN [rest EXCEPT !.ops = v.ops \o rest.ops]
                    ELSE Ok(<<Component(name, component_manifests_directory)>>
                              \o rest.value,
                            v.ops \o rest.ops)

\* Platform::new as it would be with the components discovered before the
\* three convention directories are validated
Platform_new_discover_first(fsys, name, system_manifest_directory) ==
    LET environment_directory ==
            join(join(system_manifest_directory, <<"environments">>), name)
        cluster_directory ==
            join(join(system_manifest_directory, <<"clusters">>), name)
        manifests_directory ==
            join(join(system_manifest_directory, <<"manifests">>), name)
        names == get_component_names_from_manifest_directory(fsys, manifests_directory)
        v == with_context(
               validate_directories_exist(
                   fsys, <<environment_directory, cluster_directory, manifests_directory>>),
               "Failed to obtain platform directories")
    IN IF ~names.ok THEN names
       ELSE IF ~v.ok THEN [v EXCEPT !.ops = names.ops \o v.ops]
       ELSE LET cs == collect_components(fsys, manifests_directory, names.value)
                ops == names.ops \o v.ops \o cs.ops
            IN IF ~cs.ok THEN [cs EXCEPT !.ops = ops]
               ELSE Ok([name |-> name,
                        environment_directory |-> environment_directory,
                        cluster_directory |-> cluster_directory,
                        manifests_directory |-> manifests_directory,
                        components |-> cs.value],
                       ops)

Platform_new(fsys, name, system_manifest_directory) ==
    LET environment_directory ==
            join(join(system_manifest_directory, <<"environments">>), name)
        cluster_directory ==
            join(join(system_manifest_directory, <<"clusters">>), name)
        manifests_directory ==
            join(join(system_manifest_directory, <<"manifests">>), name)
        v == with_context(
               validate_directories_exist(
                   fsys, <<environment_directory, cluster_directory, manifests_directory>>),
               "Failed to obtain platform directories")
    IN IF ~v.ok THEN v
       ELSE LET names == get_component_names_from_manifest_directory(
                             fsys, manifests_directory)
            IN IF ~names.ok THEN [names EXCEPT !.ops = v.ops \o names.ops]
               ELSE LET cs == collect_components(fsys, manifests_directory, names.value)
                        ops == v.ops \o names.ops \o cs.ops
                    IN IF ~cs.ok THEN [cs EXCEPT !.ops = ops]
                       ELSE Ok([name |-> name,
                                environment_directory |-> environment_directory,
                                cluster_directory |-> cluster_directory,
                                manifests_directory |-> manifests_directory,
                                components |-> cs.value],
                               ops)

----------------------------------------------------------------------------
(* The walk.  An item of the sequence is Ok(ManifestResource) or Err.      *)

\* a DynamicObject: kind is "" when types is None, name is "" when the
\* metadata is the default one
NoResource == [kind |-> "", name |-> ""]
NoComponent == Component(NoName, NoPath)
NoPlatform == [name |-> NoName, environment_directory |-> NoPath,
               cluster_directory |-> NoPath, manifests_directory |-> NoPath,
               components |-> <<>>]

ManifestResource(file, component, platform, resource) ==
    [ok |-> TRUE, file |-> file, component |-> component, platform |-> platform,
     resource |-> resource, error |-> <<>>]
ErrItem(e) ==
    [ok |-> FALSE, file |-> NoPath, component |-> NoComponent, platform |-> NoPlatform,
     resource |-> NoResource, error |-> e]

\* the item as it would be if it were given the first component of the
\* platform whatever the directory of the file
deserialize_first_component(doc, file, component, platform) ==
    IF doc.decodes
    THEN ManifestResource(file, platform.components[1], platform, doc.resource)
    ELSE ErrItem(<<Msg("serde_yaml::Error", NoPath, NoIndex)>>)

\* DynamicObject::deserialize(doc).map_err(anyhow::Error::from).map(..):
\* the serde_yaml error is passed on as it is, nothing is attached to it
deserialize(doc, file, component, platform) ==
    IF doc.decodes
    THEN ManifestResource(file, component, platform, doc.resource)
    ELSE ErrItem(<<Msg("serde_yaml::Error", NoPath, NoIndex)>>)

\* the filter as it would be if it looked at the name only
is_candidate_by_name(fsys, dr) ==
    IF dr.ok
    THEN LET ext == extension(dr.path[Len(dr.path)])
         IN ext = <<"yaml">> \/ ext = <<"yml">>
    ELSE TRUE

\* the filter as it would be if it knew the extension yaml only
is_candidate_yaml_only(fsys, dr) ==
    IF dr.ok
    THEN /\ is_file(fsys, dr.path)
         /\ extension(dr.path[Len(dr.path)]) = <<"yaml">>
    ELSE TRUE

\* the filter over the directory entries: an Ok entry passes when it is a
\* regular file with extension yaml or yml, an Err entry passes always
is_candidate(fsys, dr) ==
    IF dr.ok
    THEN /\ is_file(fsys, dr.path)
         /\ LET ext == extension(dr.path[Len(dr.path)])
            IN ext = <<"yaml">> \/ ext = <<"yml">>
    ELSE TRUE

\* Result::into_iter over the result of read_dir: the listing, or nothing
listing_of(rd) == IF rd.ok THEN rd.entries ELSE <<>>

RECURSIVE UntilError(_)
UntilError(docs) ==
    IF docs = <<>> THEN <<>>
    ELSE IF ~Head(docs).decodes THEN <<Head(docs)>>
    ELSE <<Head(docs)>> \o UntilError(Tail(docs))

\* the documents as they would be if the document iterator ended with the
\* first document that does not decode
documents_of_until_error(opened) ==
    IF opened.ok THEN UntilError(opened.docs) ELSE <<>>

\* Result::into_iter over the result of File::open: the documents, or nothing
documents_of(opened) == IF opened.ok THEN opened.docs ELSE <<>>

\* the drop as it would be if the file stayed open
release_never(s) == <<>>

\* the drop of the document iterator of the current file, which owns the
\* BufReader<File>: the file is closed
release(s) == IF s.inFile THEN <<Op("close", s.file)>> ELSE <<>>

\* the state of the nested flat_maps: how many platforms and components
\* were taken, the rest of the current listing, the rest of the current file
NewIterator ==
    [pi |-> 0, ci |-> 0, inPlatform |-> FALSE,
     inDir |-> FALSE, entries |-> <<>>,
     inFile |-> FALSE, file |-> NoPath, docs |-> <<>>]

NoItem == [some |-> FALSE, item |-> ErrItem(<<>>)]
SomeItem(x) == [some |-> TRUE, item |-> x]

\* one step of SystemManifestsResourceIterator::next: the innermost
\* iterator that is alive is advanced; done is set when the outermost
\* iterator is exhausted
Advance(fsys, platforms, s) ==
    IF s.inFile
    THEN \* the document iterator of the open file
         IF s.docs # <<>>
         THEN [it |-> [s EXCEPT !.docs = Tail(s.docs)],
               yield |-> SomeItem(deserialize(Head(s.docs), s.file,
                                              platforms[s.pi].components[s.ci],
                                              platforms[s.pi])),
               ops |-> <<>>, done |-> FALSE]
         ELSE [it |-> [s EXCEPT !.inFile = FALSE, !.file = NoPath],
               yield |-> NoItem, ops |-> release(s), done |-> FALSE]
    ELSE IF s.inDir
    THEN \* the filtered ReadDir of the current component
         IF s.entries # <<>>
         THEN LET dr == Head(s.entries)
                  rest == [s EXCEPT !.entries = Tail(s.entries)]
                  stat == IF dr.ok THEN <<Op("metadata", dr.path)>> ELSE <<>>
              IN IF ~is_candidate(fsys, dr)
                 THEN [it |-> rest, yield |-> NoItem, ops |-> stat, done |-> FALSE]
                 ELSE IF ~dr.ok
                 THEN \* file_res.into_iter() of an Err: nothing
                      [it |-> rest, yield |-> NoItem, ops |-> stat, done |-> FALSE]
                 ELSE LET opened == File_open(fsys, dr.path)
                      IN [it |-> [rest EXCEPT !.inFile = opened.ok,
                                              !.file = IF opened.ok THEN dr.path ELSE NoPath,
                                              !.docs = documents_of(opened)],
                          yield |-> NoItem,
                          ops |-> stat \o <<Op("open", dr.path)>>,
                          done |-> FALSE]
         ELSE [it |-> [s EXCEPT !.inDir = FALSE], yield |-> NoItem,
               ops |-> <<>>, done |-> FALSE]
    ELSE IF s.inPlatform
    THEN \* the components of the current platform
         IF s.ci < Len(platforms[s.pi].components)
         THEN LET c == platforms[s.pi].components[s.ci + 1]
                  rd == read_dir(fsys, c.manifests_directory)
              IN [it |-> [s EXCEPT !.ci = s.ci + 1, !.inDir = TRUE,
                                   !.entries = listing_of(rd)],
                  yield |-> NoItem,
                  ops |-> <<Op("read_dir", c.manifests_directory)>>,
                  done |-> FALSE]
         ELSE [it |-> [s EXCEPT !.inPlatform = FALSE], yield |-> NoItem,
               ops |-> <<>>, done |-> FALSE]
    ELSE \* the platforms of the corpus
         IF s.pi < Len(platforms)
         THEN [it |-> [s EXCEPT !.pi = s.pi + 1, !.ci = 0, !.inPlatform = TRUE],
               yield |-> NoItem, ops |-> <<>>, done |-> FALSE]
         ELSE [it |-> s, yield |-> NoItem, ops |-> <<>>, done |-> TRUE]

\* SystemManifestsResourceIterator::next: advance until an item is
\* produced (Some) or the outermost iterator is exhausted (None)
RECURSIVE Pull(_, _, _)
\* next as it would be if a file that cannot be opened ended the sequence
Pull_end_on_open_failure(fsys, platforms, s) ==
    LET a == Advance(fsys, platforms, s)
        openFailed == /\ a.ops # <<>>
                      /\ a.ops[Len(a.ops)].op = "open"
                      /\ ~a.it.inFile
    IN IF a.yield.some \/ a.done THEN a
       ELSE IF openFailed THEN [a EXCEPT !.done = TRUE]
       ELSE LET r == Pull(fsys, platforms, a.it)
            IN [r EXCEPT !.ops = a.ops \o r.ops]

Pull(fsys, platforms, s) ==
    LET a == Advance(fsys, platforms, s) IN
    IF a.yield.some \/ a.done THEN a
    ELSE LET r == Pull(fsys, platforms, a.it)
         IN [r EXCEPT !.ops = a.ops \o r.ops]

----------------------------------------------------------------------------
(* The directory trees the program is run on. *)

A == <<"a">>
B == <<"b">>
AdotB == <<"a", ".", "b">>
C == <<"c">>
D == <<"d">>
CdotD == <<"c", ".", "d">>
PlatformNames == <<A, B, AdotB>>
Kinds == {"dir", "file", "missing"}

KindAt(i) == IF i % 2 = 1 THEN "Secret" ELSE "ConfigMap"
DocNames == <<"d1", "d2", "d3", "d4", "d5", "d6">>
\* the document at position i of a file: one that decodes, or one that does not
DocAt(i, good) ==
    IF good THEN [decodes |-> TRUE, resource |-> [kind |-> KindAt(i), name |-> DocNames[i]]]
    ELSE [decodes |-> FALSE, resource |-> NoResource]
DocSeqs(k) == {[i \in 1..k |-> DocAt(i, b[i])] : b \in [1..k -> BOOLEAN]}

EmptyDir == DirNode(TRUE, <<>>)
PlainFile == FileNode(TRUE, <<DocAt(1, TRUE), DocAt(2, TRUE)>>)
\* a component directory with one two-document manifest
PlainDir == DirNode(TRUE, <<Entry(<<"p", ".", "yaml">>, PlainFile)>>)

FileStems == <<"x", "y", "z", "w", "v", "u">>
YamlNameAt(pos) == <<FileStems[pos], ".", IF pos % 2 = 1 THEN "yaml" ELSE "yml">>

\* the entries a component directory may list at position pos, holding k documents
EntriesAt(pos, k) ==
    IF k = 0
    THEN {ErrEntry,
          Entry(YamlNameAt(pos), FileNode(FALSE, <<DocAt(1, TRUE)>>)),
          Entry(YamlNameAt(pos), FileNode(TRUE, <<>>)),
          Entry(<<FileStems[pos], ".", "txt">>, FileNode(TRUE, <<DocAt(1, TRUE)>>)),
          Entry(YamlNameAt(pos), DirNode(TRUE, <<>>))}
    ELSE {Entry(YamlNameAt(pos), FileNode(TRUE, ds)) : ds \in DocSeqs(k)}

\* the listings of at most n entries holding at most d documents in total
RECURSIVE FileListings(_, _, _)
FileListings(pos, n, d) ==
    {<<>>} \cup
    (IF n = 0 THEN {}
     ELSE UNION {{<<e>> \o rest : e \in EntriesAt(pos, k),
                                  rest \in FileListings(pos + 1, n - 1, d - k)}
                 : k \in 0..d})

VariedDirs ==
    {DirNode(FALSE, <<>>)}
    \cup {DirNode(TRUE, l) : l \in FileListings(1, MaxFileEntries, MaxDocs)}

\* the sequences of at most n distinct elements of S
NoRepeatSeqs(S, n) ==
    {s \in UNION {[1..k -> S] : k \in 0..n} :
        \A i, j \in DOMAIN s : i # j => s[i] # s[j]}

RECURSIVE KindEntries(_, _, _)
\* the entries of a directory whose children names[i] have the kinds kind[i]
KindEntries(names, kind, dirNode) ==
    IF names = <<>> THEN <<>>
    ELSE LET n == Head(names)
             rest == KindEntries(Tail(names), kind, dirNode)
         IN IF kind[n] = "dir" THEN <<Entry(n, dirNode)>> \o rest
            ELSE IF kind[n] = "file" THEN <<Entry(n, FileNode(TRUE, <<>>))>> \o rest
            ELSE rest

Root(clusters, environments, manifests) ==
    DirNode(TRUE,
            (IF clusters.kind = "missing" THEN <<>>
             ELSE <<Entry(<<"clusters">>, clusters)>>)
            \o <<Entry(<<"environments">>, environments),
                 Entry(<<"manifests">>, manifests)>>)

ClusterEntries ==
    {Entry(A, EmptyDir), Entry(B, EmptyDir), Entry(AdotB, EmptyDir),
     Entry(<<"f">>, FileNode(TRUE, <<>>)), ErrEntry}
ComponentEntries ==
    {Entry(C, PlainDir), Entry(D, PlainDir), Entry(CdotD, PlainDir),
     Entry(<<"g">>, FileNode(TRUE, <<>>)), ErrEntry}

AllDirs == [n \in {A, B, AdotB} |-> "dir"]
OnePlainComponent == DirNode(TRUE, <<Entry(C, PlainDir)>>)

\* what is at environments/X or manifests/X for each of the three names
KindsOfNames == {k \in [{A, B, AdotB} -> Kinds] : k[AdotB] # "file"}

\* trees that vary the shape of clusters/, environments/ and manifests/
PlatformTrees ==
    {Root(cl, DirNode(TRUE, KindEntries(PlatformNames, ek, EmptyDir)),
              DirNode(TRUE, KindEntries(PlatformNames, mk, OnePlainComponent))) :
        cl \in {Missing, FileNode(TRUE, <<>>), DirNode(FALSE, <<>>)}
               \cup {DirNode(TRUE, l) : l \in NoRepeatSeqs(ClusterEntries, MaxPlatformEntries)},
        ek \in KindsOfNames,
        mk \in KindsOfNames}

\* trees that vary the listing of one platform's manifests directory
ComponentTrees ==
    {Root(DirNode(TRUE, <<Entry(A, EmptyDir), Entry(B, EmptyDir)>>),
          DirNode(TRUE, KindEntries(PlatformNames, AllDirs, EmptyDir)),
          DirNode(TRUE, <<Entry(A, ma), Entry(B, OnePlainComponent)>>)) :
        ma \in {DirNode(FALSE, <<>>)}
               \cup {DirNode(TRUE, l) : l \in NoRepeatSeqs(ComponentEntries, MaxComponentEntries)}}

\* trees that follow the convention and vary the content of one of the
\* three component directories a/c, a/d and b/c
WalkTrees ==
    {Root(DirNode(TRUE, <<Entry(A, EmptyDir), Entry(B, EmptyDir)>>),
          DirNode(TRUE, KindEntries(PlatformNames, AllDirs, EmptyDir)),
          DirNode(TRUE,
            <<Entry(A, DirNode(TRUE,
                       <<Entry(C, IF slot = 1 THEN v ELSE PlainDir),
                         Entry(D, IF slot = 2 THEN v ELSE PlainDir)>>)),
              Entry(B, DirNode(TRUE,
                       <<Entry(C, IF slot = 3 THEN v ELSE PlainDir)>>))>>)) :
        v \in VariedDirs, slot \in 1..3}

OneDoc == FileNode(TRUE, <<DocAt(1, TRUE)>>)
\* the entries the filter of the walk has to tell apart, at position pos
FilterEntriesAt(pos) ==
    {Entry(YamlNameAt(pos), OneDoc),
     Entry(<<FileStems[pos], ".", "txt", ".", "yaml">>, OneDoc),
     Entry(<<FileStems[pos], ".", IF pos % 2 = 1 THEN "YAML" ELSE "Yml">>, OneDoc),
     Entry(<<FileStems[pos], ".", "yaml", ".", "bak">>, OneDoc),
     Entry(<<FileStems[pos]>>, OneDoc),
     Entry(<<".", IF pos % 2 = 1 THEN "yaml" ELSE "yml">>, OneDoc),
     Entry(<<FileStems[pos], ".", "json">>, OneDoc),
     Entry(YamlNameAt(pos), DirNode(TRUE, <<Entry(<<"n", ".", "yaml">>, OneDoc)>>))}

RECURSIVE FilterListings(_, _)
FilterListings(pos, n) ==
    {<<>>} \cup
    (IF n = 0 THEN {}
     ELSE {<<e>> \o rest : e \in FilterEntriesAt(pos),
                           rest \in FilterListings(pos + 1, n - 1)})

\* the kinds of document the list command has to tell apart; "" stands for
\* a document whose types are None
DocKinds == {"Secret", "ExternalSecret", "PushSecret", "ConfigMap", "secret", ""}
\* a document of kind k at position i; at even positions it has no metadata
KindDocsAt(i) ==
    {[decodes |-> TRUE,
      resource |-> [kind |-> k, name |-> IF i % 2 = 1 THEN DocNames[i] ELSE ""]]
       : k \in DocKinds}
    \cup {DocAt(i, FALSE)}
KindDocSeqs ==
    UNION {{ds \in [1..k -> UNION {KindDocsAt(i) : i \in 1..k}] :
              \A i \in 1..k : ds[i] \in KindDocsAt(i)} : k \in 0..MaxDocs}

\* the convention with the content of a/c given, a/d and b/c plain
TreeOf(v) ==
    Root(DirNode(TRUE, <<Entry(A, EmptyDir), Entry(B, EmptyDir)>>),
         DirNode(TRUE, KindEntries(PlatformNames, AllDirs, EmptyDir)),
         DirNode(TRUE,
           <<Entry(A, DirNode(TRUE, <<Entry(C, v), Entry(D, PlainDir)>>)),
             Entry(B, DirNode(TRUE, <<Entry(C, PlainDir)>>))>>))

\* trees that vary the names and types of the entries of a/c
FilterTrees == {TreeOf(DirNode(TRUE, l)) : l \in FilterListings(1, MaxFileEntries)}

\* trees that vary the kinds of the documents of the one manifest of a/c
KindTrees ==
    {TreeOf(DirNode(TRUE, <<Entry(<<"k", ".", "yaml">>, FileNode(TRUE, ds))>>)) :
        ds \in KindDocSeqs}

Prod == <<"prod">>
Staging == <<"staging">>
Auth == <<"auth">>
Db == <<"db">>
SecretYaml == <<"secret", ".", "yaml">>
\* platforms prod and staging, prod with components auth and db, auth with
\* the one file secret.yaml holding the one document of kind Secret named x
ScenarioTree ==
    Root(DirNode(TRUE, <<Entry(Prod, EmptyDir), Entry(Staging, EmptyDir)>>),
         DirNode(TRUE, <<Entry(Prod, EmptyDir), Entry(Staging, EmptyDir)>>),
         DirNode(TRUE,
           <<Entry(Prod, DirNode(TRUE,
               <<Entry(Auth, DirNode(TRUE,
                   <<Entry(SecretYaml,
                           FileNode(TRUE, <<[decodes |-> TRUE,
                                             resource |-> [kind |-> "Secret",
                                                           name |-> "x"]]>>))>>)),
                 Entry(Db, EmptyDir)>>)),
             Entry(Staging, EmptyDir)>>))

----------------------------------------------------------------------------
(* The program. *)

\* cli.system_manifests, the root of every path
directory == <<>>

NoResult == [returned |-> FALSE, ok |-> FALSE, platforms |-> <<>>, error |-> <<>>]

\* standard output: whether main wrote to it, and the records written
NoOutput == [written |-> FALSE, records |-> <<>>]

\* what the list command returns, once it has returned
NoExit == [returned |-> FALSE, ok |-> FALSE, error |-> <<>>]

Init ==
    /\ \/ fs \in PlatformTrees
       \/ fs \in ComponentTrees
       \/ fs \in WalkTrees
       \/ fs \in FilterTrees
       \/ fs \in KindTrees
       \/ fs = ScenarioTree
    /\ pc = "start"
    /\ pending = <<>>
    /\ built = <<>>
    /\ result = NoResult
    /\ it = NewIterator
    /\ out = <<>>
    /\ fsops = <<>>
    /\ secrets = <<>>
    /\ stdout = NoOutput
    /\ exit = NoExit

\* SystemManifests::new up to the list of platform names
NewStart ==
    /\ pc = "start"
    /\ LET clusters_directory == join(directory, <<"clusters">>)
           v == with_context(validate_directories_exist(fs, <<clusters_directory>>),
                             "Failed to obtain clusters directory")
           names == get_cluster_names_from_clusters_directories(fs, clusters_directory)
       IN IF ~v.ok
          THEN /\ pc' = "failed"
               /\ result' = [returned |-> TRUE, ok |-> FALSE,
                             platforms |-> <<>>, error |-> v.error]
               /\ fsops' = fsops \o v.ops
               /\ pending' = pending
          ELSE IF ~names.ok
          THEN /\ pc' = "failed"
               /\ result' = [returned |-> TRUE, ok |-> FALSE,
                             platforms |-> <<>>, error |-> names.error]
               /\ fsops' = fsops \o v.ops \o names.ops
               /\ pending' = pending
          ELSE /\ pc' = "platforms"
               /\ result' = result
               /\ fsops' = fsops \o v.ops \o names.ops
               /\ pending' = names.value
    /\ UNCHANGED <<fs, built, it, out, secrets, stdout, exit>>

\* the collection as it would be if a platform that fails were left out
NewPlatform_skip_failed ==
    /\ pc = "platforms"
    /\ pending # <<>>
    /\ LET p == Platform_new(fs, Head(pending), directory)
       IN /\ fsops' = fsops \o p.ops
          /\ built' = IF p.ok THEN Append(built, p.value) ELSE built
          /\ pending' = Tail(pending)
          /\ UNCHANGED <<pc, result>>
    /\ UNCHANGED <<fs, it, out, secrets, stdout, exit>>

\* SystemManifests::new: the map over the names, collected into a Result;
\* the next name is made a Platform, and the first failure is returned
NewPlatform ==
    /\ pc = "platforms"
    /\ pending # <<>>
    /\ LET p == Platform_new(fs, Head(pending), directory)
       IN /\ fsops' = fsops \o p.ops
          /\ IF p.ok
             THEN /\ built' = Append(built, p.value)
                  /\ pending' = Tail(pending)
                  /\ UNCHANGED <<pc, result>>
             ELSE /\ pc' = "failed"
                  /\ result' = [returned |-> TRUE, ok |-> FALSE,
                                platforms |-> <<>>, error |-> p.error]
                  /\ built' = <<>>
                  /\ pending' = <<>>
    /\ UNCHANGED <<fs, it, out, secrets, stdout, exit>>

\* SystemManifests::new: every name was made a Platform
NewReturn ==
    /\ pc = "platforms"
    /\ pending = <<>>
    /\ pc' = "resolved"
    /\ result' = [returned |-> TRUE, ok |-> TRUE, platforms |-> built, error |-> <<>>]
    /\ UNCHANGED <<fs, pending, built, it, out, fsops, secrets, stdout, exit>>

\* resource_iter as it would be if it listed the component directories
\* when the sequence is created
ResourceIter_eager ==
    /\ pc = "resolved"
    /\ pc' = "walking"
    /\ it' = NewIterator
    /\ fsops' = fsops \o Concat([pi \in DOMAIN result.platforms |->
                         [ci \in DOMAIN result.platforms[pi].components |->
                            Op("read_dir",
                               result.platforms[pi].components[ci].manifests_directory)]])
    /\ UNCHANGED <<fs, pending, built, result, out, secrets, stdout, exit>>

\* SystemManifests::resource_iter
ResourceIter ==
    /\ pc = "resolved"
    /\ pc' = "walking"
    /\ it' = NewIterator
    /\ UNCHANGED <<fs, pending, built, result, out, fsops, secrets, stdout, exit>>

\* one call of SystemManifestsResourceIterator::next by the consumer
IteratorNext ==
    /\ pc = "walking"
    /\ LET r == Pull(fs, result.platforms, it)
       IN /\ it' = r.it
          /\ fsops' = fsops \o r.ops
          /\ IF r.yield.some
             THEN out' = Append(out, r.yield.item) /\ pc' = pc
             ELSE out' = out /\ pc' = "exhausted"
    /\ UNCHANGED <<fs, pending, built, result, secrets, stdout, exit>>

\* the consumer drops the sequence before its end: the iterator of the
\* open file is dropped with it
Drop ==
    /\ pc = "walking"
    /\ pc' = "dropped"
    /\ fsops' = fsops \o release(it)
    /\ it' = [it EXCEPT !.inFile = FALSE, !.file = NoPath, !.docs = <<>>]
    /\ UNCHANGED <<fs, pending, built, result, out, secrets, stdout, exit>>

\* the projection as it would be if it took the two names for each other
FlatManifestResource_names_swapped(value) ==
    [file |-> value.file,
     component_name |-> value.platform.name,
     platform_name |-> value.component.name,
     resource_meta |-> [name |-> value.resource.name]]

\* impl From<ManifestResource> for FlatManifestResource
FlatManifestResource(value) ==
    [file |-> value.file,
     component_name |-> value.component.name,
     platform_name |-> value.platform.name,
     resource_meta |-> [name |-> value.resource.name]]

\* the kinds as they would be if the match knew Secret only
SecretKinds_secret_only == {"Secret"}

\* the kinds the list command keeps
SecretKinds == {"Secret", "ExternalSecret", "PushSecret"}

\* main, Commands::List: the empty vector of secrets and the call of
\* resource_iter that the for loop is over
ListStart ==
    /\ pc = "resolved"
    /\ pc' = "listing"
    /\ it' = NewIterator
    /\ secrets' = <<>>
    /\ UNCHANGED <<fs, pending, built, result, out, fsops, stdout, exit>>

\* the turn of the loop as it would be if an error item were skipped
ListNext_skip_errors ==
    /\ pc = "listing"
    /\ LET r == Pull(fs, result.platforms, it)
       IN /\ it' = r.it
          /\ fsops' = fsops \o r.ops
          /\ IF r.yield.some
             THEN /\ out' = Append(out, r.yield.item)
                  /\ secrets' = IF /\ r.yield.item.ok
                                   /\ r.yield.item.resource.kind \in SecretKinds
                                THEN Append(secrets, r.yield.item)
                                ELSE secrets
                  /\ pc' = pc
             ELSE /\ pc' = "collected"
                  /\ UNCHANGED <<out, secrets>>
    /\ UNCHANGED <<fs, pending, built, result, stdout, exit>>

\* main, Commands::List: one turn of the for loop; an error item is
\* returned with ? and the iterator is dropped, a resource whose kind is
\* one of the three is pushed, the end of the sequence ends the loop
ListNext ==
    /\ pc = "listing"
    /\ LET r == Pull(fs, result.platforms, it)
       IN IF r.yield.some
          THEN /\ out' = Append(out, r.yield.item)
               /\ IF r.yield.item.ok
                  THEN /\ secrets' = IF r.yield.item.resource.kind \in SecretKinds
                                     THEN Append(secrets, r.yield.item)
                                     ELSE secrets
                       /\ it' = r.it
                       /\ fsops' = fsops \o r.ops
                       /\ UNCHANGED <<pc, exit>>
                  ELSE /\ pc' = "list_failed"
                       /\ exit' = [returned |-> TRUE, ok |-> FALSE,
                                   error |-> r.yield.item.error]
                       /\ it' = [r.it EXCEPT !.inFile = FALSE, !.file = NoPath,
                                             !.docs = <<>>]
                       /\ fsops' = fsops \o r.ops \o release(r.it)
                       /\ secrets' = secrets
          ELSE /\ pc' = "collected"
               /\ it' = r.it
               /\ fsops' = fsops \o r.ops
               /\ UNCHANGED <<out, secrets, exit>>
    /\ UNCHANGED <<fs, pending, built, result, stdout>>

\* main, Commands::List: the secrets are projected and written to stdout
ListWrite ==
    /\ pc = "collected"
    /\ pc' = "list_done"
    /\ stdout' = [written |-> TRUE,
                  records |-> [i \in DOMAIN secrets |-> FlatManifestResource(secrets[i])]]
    /\ exit' = [returned |-> TRUE, ok |-> TRUE, error |-> <<>>]
    /\ UNCHANGED <<fs, pending, built, result, it, out, fsops, secrets>>

Next ==
    \/ NewStart
    \/ NewPlatform
    \/ NewReturn
    \/ ResourceIter
    \/ IteratorNext
    \/ Drop
    \/ ListStart
    \/ ListNext
    \/ ListWrite

Spec == Init /\ [][Next]_vars

----------------------------------------------------------------------------
(* What a walk over the corpus is to yield, stated over the tree: one slot *)
(* per document of every YAML file of every component of every platform,   *)
(* in order; with surfaceListing a slot per listing failure, with          *)
(* surfaceOpen a slot per YAML file that cannot be opened.                 *)

IsYamlName(n) ==
    /\ Len(n) >= 3
    /\ n[Len(n) - 1] = "."
    /\ n[Len(n)] \in {"yaml", "yml"}

IsYamlFile(path) ==
    /\ Lookup(fs, path).kind = "file"
    /\ IsYamlName(path[Len(path)])

DocSlot(pi, ci, path, k, doc) ==
    [origin |-> "document", ok |-> doc.decodes, pi |-> pi, ci |-> ci,
     file |-> path, index |-> k, resource |-> doc.resource]
FailureSlot(origin, pi, ci, path) ==
    [origin |-> origin, ok |-> FALSE, pi |-> pi, ci |-> ci,
     file |-> path, index |-> NoIndex, resource |-> NoResource]

SlotsOfFile(pi, ci, path, surfaceOpen) ==
    LET node == Lookup(fs, path) IN
    IF node.openable
    THEN [k \in DOMAIN node.docs |-> DocSlot(pi, ci, path, k, node.docs[k])]
    ELSE IF surfaceOpen THEN <<FailureSlot("open", pi, ci, path)>> ELSE <<>>

SlotsOfEntry(pi, ci, dir, e, surfaceListing, surfaceOpen) ==
    IF e.err
    THEN IF surfaceListing THEN <<FailureSlot("listing", pi, ci, dir)>> ELSE <<>>
    ELSE IF IsYamlFile(join(dir, e.name))
         THEN SlotsOfFile(pi, ci, join(dir, e.name), surfaceOpen)
         ELSE <<>>

SlotsOfComponent(pi, ci, dir, surfaceListing, surfaceOpen) ==
    LET node == Lookup(fs, dir) IN
    IF node.kind = "dir" /\ node.listable
    THEN Concat([i \in DOMAIN node.entries |->
                   SlotsOfEntry(pi, ci, dir, node.entries[i],
                                surfaceListing, surfaceOpen)])
    ELSE IF surfaceListing THEN <<FailureSlot("listing", pi, ci, dir)>> ELSE <<>>

Target(platforms, surfaceListing, surfaceOpen) ==
    Concat([pi \in DOMAIN platforms |->
              Concat([ci \in DOMAIN platforms[pi].components |->
                        SlotsOfComponent(pi, ci,
                                         platforms[pi].components[ci].manifests_directory,
                                         surfaceListing, surfaceOpen)])])

\* the item at position i of the output is the one the slot asks for
ItemIsSlot(item, slot, platforms) ==
    /\ item.ok = slot.ok
    /\ item.ok => /\ item.file = slot.file
                  /\ item.resource = slot.resource
                  /\ item.component = platforms[slot.pi].components[slot.ci]
                  /\ item.platform = platforms[slot.pi]

Matches(items, target, platforms) ==
    /\ Len(items) = Len(target)
    /\ \A i \in DOMAIN target : ItemIsSlot(items[i], target[i], platforms)

Walked == pc \in {"walking", "exhausted"}
\* the slots of the walk as the code yields them: documents only
DocumentSlots == Target(result.platforms, FALSE, FALSE)

Range(f) == {f[i] : i \in DOMAIN f}

\* the components the walk visits, as (platform, component) positions
Visited ==
    UNION {{<<pi, ci>> : ci \in DOMAIN result.platforms[pi].components} :
           pi \in DOMAIN result.platforms}
DirOf(v) == result.platforms[v[1]].components[v[2]].manifests_directory
\* the YAML files of a visited component that its listing names
YamlFilesOf(v) ==
    LET node == Lookup(fs, DirOf(v)) IN
    IF node.kind = "dir" /\ node.listable
    THEN {join(DirOf(v), node.entries[i].name) :
            i \in {j \in DOMAIN node.entries :
                     /\ ~node.entries[j].err
                     /\ IsYamlFile(join(DirOf(v), node.entries[j].name))}}
    ELSE {}
ListingFails(v) ==
    LET node == Lookup(fs, DirOf(v)) IN
    \/ node.kind # "dir"
    \/ ~node.listable
    \/ \E i \in DOMAIN node.entries : node.entries[i].err
OpenFails(v) == \E f \in YamlFilesOf(v) : ~Lookup(fs, f).openable
DecodeFails(v) ==
    \E f \in YamlFilesOf(v) :
        /\ Lookup(fs, f).openable
        /\ \E k \in DOMAIN Lookup(fs, f).docs : ~Lookup(fs, f).docs[k].decodes

----------------------------------------------------------------------------
(* C1: when the walk is exhausted, every YAML file of a visited component  *)
(* whose open failed has exactly one error item in the output, at the      *)
(* position where its documents would have been.                           *)
C1_OpenFailureIsOneErrorItem ==
    pc = "exhausted" =>
        LET t == Target(result.platforms, FALSE, TRUE) IN
        /\ Len(out) = Len(t)
        /\ \A i \in DOMAIN t : t[i].origin = "open" => ~out[i].ok

(* C2: when the walk is exhausted, every listing failure (a component      *)
(* directory that cannot be enumerated, a directory entry that is an       *)
(* error) has an error item in the output at the point it was met.         *)
C2_ListingFailureIsErrorItem ==
    pc = "exhausted" =>
        LET t == Target(result.platforms, TRUE, FALSE) IN
        /\ Len(out) = Len(t)
        /\ \A i \in DOMAIN t : t[i].origin = "listing" => ~out[i].ok

\* the slots of the files that hold a document that does not decode
InFailingFile(t, i) ==
    \E j \in DOMAIN t :
        /\ ~t[j].ok
        /\ t[j].pi = t[i].pi /\ t[j].ci = t[i].ci /\ t[j].file = t[i].file

(* C3: a file with n documents of which some do not decode has exactly n   *)
(* items in the output, in document order: the item of a document that     *)
(* decodes is its success, the item of one that does not is an error, and  *)
(* the documents after a failing one are not suppressed.                   *)
C3_FailingDocumentKeepsSiblings ==
    Walked =>
        LET t == DocumentSlots IN
        /\ Len(out) <= Len(t)
        /\ \A i \in DOMAIN out :
              InFailingFile(t, i) => ItemIsSlot(out[i], t[i], result.platforms)
        /\ pc = "exhausted" =>
              \A i \in DOMAIN t : InFailingFile(t, i) => i <= Len(out)

\* document 2 of 3 does not decode: success, error, success were yielded
C3_Witness ==
    /\ pc = "exhausted"
    /\ LET t == DocumentSlots IN
       \E i \in DOMAIN out :
          /\ i + 2 \in DOMAIN out
          /\ t[i].index = 1 /\ t[i + 1].index = 2 /\ t[i + 2].index = 3
          /\ t[i].file = t[i + 2].file
          /\ Len(Lookup(fs, t[i].file).docs) = 3
          /\ out[i].ok /\ ~out[i + 1].ok /\ out[i + 2].ok
          /\ out[i + 2].file = t[i].file

(* C4: every error item yielded for a document that did not decode carries *)
(* the path of the document's file and the index of the document in it.    *)
C4_DecodeErrorNamesFileAndIndex ==
    Walked =>
        LET t == DocumentSlots IN
        \A i \in DOMAIN out :
            (~out[i].ok /\ i \in DOMAIN t) =>
                \E m \in Range(out[i].error) :
                    m.path = t[i].file /\ m.index = t[i].index

\* how often an item for the document of a slot occurs in the output
YieldedTimes(slot) ==
    Cardinality({i \in DOMAIN out :
                    /\ out[i].ok
                    /\ out[i].file = slot.file
                    /\ out[i].resource = slot.resource
                    /\ out[i].platform = result.platforms[slot.pi]
                    /\ out[i].component = result.platforms[slot.pi].components[slot.ci]})
\* how often the walk visits the document of a slot
VisitedTimes(t, slot) ==
    Cardinality({j \in DOMAIN t :
                    /\ t[j].ok
                    /\ t[j].file = slot.file
                    /\ t[j].resource = slot.resource
                    /\ result.platforms[t[j].pi] = result.platforms[slot.pi]
                    /\ result.platforms[t[j].pi].components[t[j].ci]
                         = result.platforms[slot.pi].components[slot.ci]})

(* C5: whatever file could not be opened and whatever document did not     *)
(* decode, a consumer that pulls until the end has been given every        *)
(* document that decodes, of every file that opens, of every component of  *)
(* every platform.                                                         *)
C5_FailureNeverEndsWalk ==
    pc = "exhausted" =>
        LET t == DocumentSlots IN
        \A j \in DOMAIN t : t[j].ok => YieldedTimes(t[j]) = VisitedTimes(t, t[j])

\* in one component a file did not open and a document did not decode, and
\* documents of a later component and of a later platform were yielded
C5_Witness ==
    /\ pc = "exhausted"
    /\ \E v \in Visited :
          /\ OpenFails(v)
          /\ DecodeFails(v)
          /\ \E i \in DOMAIN out : ~out[i].ok
          /\ \E i \in DOMAIN out :
                /\ out[i].ok
                /\ out[i].platform = result.platforms[v[1]]
                /\ \E ci \in DOMAIN out[i].platform.components :
                      ci > v[2] /\ out[i].component = out[i].platform.components[ci]
          /\ \E i \in DOMAIN out :
                /\ out[i].ok
                /\ \E pi \in DOMAIN result.platforms :
                      pi > v[1] /\ out[i].platform = result.platforms[pi]
                                /\ out[i].platform # result.platforms[v[1]]

NoFailures == \A v \in Visited : ~ListingFails(v) /\ ~OpenFails(v) /\ ~DecodeFails(v)

RECURSIVE SumOver(_, _)
\* the sum of the document counts of a set of files
SumOver(files, n) ==
    IF files = {} THEN n
    ELSE LET f == CHOOSE x \in files : TRUE
         IN SumOver(files \ {f}, n + Len(Lookup(fs, f).docs))

\* the items of the positions of the output that came from a component
ItemsOf(t, v) ==
    {i \in DOMAIN out : t[i].pi = v[1] /\ t[i].ci = v[2]}

(* C10: with no listing, open or decode failure, the exhausted walk has    *)
(* yielded the documents of the corpus in platform, component, file and    *)
(* document order, each once, and each component contributed as many       *)
(* items as its YAML files hold documents.                                 *)
C10_WalkIsOrderedConcatenation ==
    (pc = "exhausted" /\ NoFailures) =>
        LET t == DocumentSlots IN
        /\ out = [i \in DOMAIN t |->
                    ManifestResource(t[i].file,
                                     result.platforms[t[i].pi].components[t[i].ci],
                                     result.platforms[t[i].pi],
                                     t[i].resource)]
        /\ \A v \in Visited : Cardinality(ItemsOf(t, v)) = SumOver(YamlFilesOf(v), 0)

\* two platforms, a component with two YAML files holding documents
C10_Witness ==
    /\ pc = "exhausted"
    /\ NoFailures
    /\ Len(result.platforms) = 2
    /\ result.platforms[1].name # result.platforms[2].name
    /\ \E v \in Visited :
          /\ Cardinality(YamlFilesOf(v)) = 2
          /\ \A f \in YamlFilesOf(v) : Len(Lookup(fs, f).docs) >= 1
          /\ Cardinality(ItemsOf(DocumentSlots, v)) = 3
    /\ Len(out) >= 7

----------------------------------------------------------------------------
(* Discovery. *)

clusters_directory == join(directory, <<"clusters">>)
\* the names of the entries of a directory that are directories
SubdirNames(dir) ==
    LET node == Lookup(fs, dir) IN
    {node.entries[i].name :
        i \in {j \in DOMAIN node.entries :
                 ~node.entries[j].err /\ node.entries[j].node.kind = "dir"}}
Listable(dir) ==
    LET node == Lookup(fs, dir) IN
    /\ node.kind = "dir"
    /\ node.listable
    /\ \A i \in DOMAIN node.entries : ~node.entries[i].err
IsDir(path) == Lookup(fs, path).kind = "dir"

\* the root follows the convention: clusters/ can be listed and every
\* subdirectory X of it has environments/X and manifests/X, whose
\* subdirectories can be listed
Conforming ==
    /\ Listable(clusters_directory)
    /\ \A x \in SubdirNames(clusters_directory) :
          /\ IsDir(<<<<"environments">>, x>>)
          /\ Listable(<<<<"manifests">>, x>>)

NamesOf(records) == {records[i].name : i \in DOMAIN records}

(* C6: on a root that follows the convention SystemManifests::new succeeds *)
(* and its platforms are named exactly as the subdirectories of clusters/, *)
(* one platform for each, names with a dot included.                       *)
C6_PlatformsAreClusterSubdirectories ==
    (result.returned /\ Conforming) =>
        /\ result.ok
        /\ NamesOf(result.platforms) = SubdirNames(clusters_directory)
        /\ Len(result.platforms) = Cardinality(SubdirNames(clusters_directory))

\* every platform that Platform::new has returned
Constructed == Range(built) \cup Range(result.platforms)

(* C7: the components of a constructed platform are named exactly as the   *)
(* subdirectories of manifests/<platform>/, one component for each, names  *)
(* with a dot included, and the manifests directory of each is             *)
(* manifests/<platform>/<name>.                                            *)
C7_ComponentsAreManifestSubdirectories ==
    \A p \in Constructed :
        LET dir == <<<<"manifests">>, p.name>> IN
        /\ NamesOf(p.components) = SubdirNames(dir)
        /\ Len(p.components) = Cardinality(SubdirNames(dir))
        /\ \A i \in DOMAIN p.components :
              p.components[i].manifests_directory = join(dir, p.components[i].name)

\* the platform names that SystemManifests::new discovers, and what
\* Platform::new makes of each
Discovered == get_cluster_names_from_clusters_directories(fs, clusters_directory)
Made(i) == Platform_new(fs, Discovered.value[i], directory)
FailingPlatforms == {i \in DOMAIN Discovered.value : ~Made(i).ok}
FirstFailing == CHOOSE i \in FailingPlatforms : \A j \in FailingPlatforms : i <= j

(* C8: SystemManifests::new returns a corpus only when every discovered    *)
(* platform was constructed, and then all of them in order; when a         *)
(* platform fails it returns the error of the first one that fails and no  *)
(* platform at all; nothing is returned while platforms are constructed.   *)
(* (pc is "failed" or "resolved" when SystemManifests::new has returned.)  *)
C8_NewIsAllOrNothing ==
    /\ pc = "platforms" => ~result.returned
    /\ (pc \in {"failed", "resolved"} /\ IsDir(clusters_directory) /\ Discovered.ok) =>
          IF FailingPlatforms = {}
          THEN /\ result.ok
               /\ result.platforms = [i \in DOMAIN Discovered.value |-> Made(i).value]
          ELSE /\ ~result.ok
               /\ result.platforms = <<>>
               /\ result.error = Made(FirstFailing).error

\* the first platform was constructed, the second failed: an error and no
\* platform was returned
C8_Witness ==
    /\ pc = "failed"
    /\ IsDir(clusters_directory) /\ Discovered.ok
    /\ Len(Discovered.value) = 2
    /\ Made(1).ok /\ ~Made(2).ok
    /\ result.returned /\ ~result.ok /\ result.platforms = <<>>

environments(name) == <<<<"environments">>, name>>
manifests(name) == <<<<"manifests">>, name>>
\* the filesystem operations of the step being taken
StepOps == SubSeq(fsops', Len(fsops) + 1, Len(fsops'))

(* C9: when environments/<platform> is missing, the construction of the    *)
(* platform fails with an error that names that path and no other, and     *)
(* manifests/<platform> is not listed.                                     *)
C9_MissingEnvironmentFailsBeforeDiscovery ==
    [][(NewPlatform /\ ~metadata(fs, environments(Head(pending))).ok) =>
          /\ pc' = "failed"
          /\ ~result'.ok
          /\ \E m \in Range(result'.error) : m.path = environments(Head(pending))
          /\ \A m \in Range(result'.error) :
                m.path \in {NoPath, environments(Head(pending))}
          /\ Op("read_dir", manifests(Head(pending))) \notin Range(StepOps)
          /\ Op("read_dir", manifests(Head(pending))) \notin Range(fsops')]_vars

\* the construction of a platform failed on its missing environments
\* directory although its manifests directory was there to be listed
C9_Witness ==
    /\ pc = "failed"
    /\ \E n \in {A, B} :
          /\ ~metadata(fs, environments(n)).ok
          /\ Listable(manifests(n))
          /\ result.error = <<Msg("Failed to obtain platform directories", NoPath, NoIndex),
                              Msg("Directory does not exist", environments(n), NoIndex)>>
          /\ Op("metadata", environments(n)) \in Range(fsops)

----------------------------------------------------------------------------
\* the paths on which the operation op was performed so far
PathsOf(op) == {fsops[i].path : i \in {j \in DOMAIN fsops : fsops[j].op = op}}
\* the list command or another consumer has pulled from the sequence
Pulled == pc \in {"walking", "exhausted", "dropped",
                  "listing", "collected", "list_failed", "list_done"}
\* the sequence was pulled to its end
AtEnd == pc \in {"exhausted", "collected", "list_done"}

(* C11: during a walk only regular files whose extension is exactly yaml   *)
(* or yml are opened and yield items; a subdirectory, whatever its name,   *)
(* and a file with another extension (YAML and Yml included) or with none  *)
(* are never opened and contribute no item: every opened path and the file *)
(* of every success item is such a file, and at the end of the sequence    *)
(* there are as many items as such files that open hold documents.         *)
C11_OnlyYamlFilesAreOpened ==
    Pulled =>
        /\ \A p \in PathsOf("open") : IsYamlFile(p)
        /\ \A i \in DOMAIN out : out[i].ok => IsYamlFile(out[i].file)
        /\ AtEnd => Len(out) = Len(DocumentSlots)

\* a walk came to its end over a directory that lists a subdirectory
\* named as a manifest and a file whose extension is yaml in other
\* letters; both were looked at and not opened, other manifests were
C11_Witness ==
    /\ pc = "exhausted"
    /\ out # <<>>
    /\ \E p, q \in PathsOf("metadata") :
          /\ Len(p) = 4 /\ Len(q) = 4
          /\ Lookup(fs, p).kind = "dir" /\ IsYamlName(p[4])
          /\ Lookup(fs, q).kind = "file" /\ q[4][Len(q[4])] \in {"YAML", "Yml"}
          /\ p \notin PathsOf("open") /\ q \notin PathsOf("open")

----------------------------------------------------------------------------
\* the directory an operation of the walk is in: the component directory
\* that is listed, or the one holding the entry that is looked at or opened
DirOfOp(o) == SubSeq(o.path, 1, 3)
\* the position in its directory's listing of the entry named by path,
\* 0 for the directory itself
EntryIndex(path) ==
    IF Len(path) <= 3 THEN 0
    ELSE LET es == Lookup(fs, SubSeq(path, 1, 3)).entries
         IN CHOOSE i \in DOMAIN es : ~es[i].err /\ es[i].name = path[4]
\* (platform, component, entry) positions in the order of the walk
Earlier(x, y) ==
    \/ x[1] < y[1]
    \/ x[1] = y[1] /\ x[2] < y[2]
    \/ x[1] = y[1] /\ x[2] = y[2] /\ x[3] < y[3]
PositionOfSlot(slot) == <<slot.pi, slot.ci, EntryIndex(slot.file)>>

(* C12: the walk is lazy.  Creating the sequence performs no filesystem    *)
(* operation.  In a call of next made when k items were yielded, a         *)
(* component directory is listed and an entry is looked at or opened only  *)
(* when every item of the earlier files and components is among those k,   *)
(* and, when the call yields item k+1, nothing after the file of that item *)
(* is touched: a consumer that stops after k items has touched nothing     *)
(* beyond what these items needed.                                         *)
C12_WalkIsLazy ==
    [][/\ pc = "resolved" => fsops' = fsops
       /\ (pc \in {"walking", "listing"} /\ pc' # "dropped") =>
            LET t == DocumentSlots
                k == Len(out)
            IN \A i \in DOMAIN StepOps :
                 StepOps[i].op \in {"read_dir", "metadata", "open"} =>
                   \E v \in Visited :
                     LET at == <<v[1], v[2], EntryIndex(StepOps[i].path)>> IN
                     /\ DirOf(v) = DirOfOp(StepOps[i])
                     /\ \A j \in DOMAIN t :
                          Earlier(PositionOfSlot(t[j]), at) => j <= k
                     /\ Len(out') > k => ~Earlier(PositionOfSlot(t[k + 1]), at)
      ]_vars

\* the consumer has some items, a later manifest of the directory of the
\* last one is not opened and a later component directory is not listed
C12_Witness ==
    /\ pc = "walking"
    /\ out # <<>>
    /\ \E v, w \in Visited :
          /\ DirOf(v) \in PathsOf("read_dir")
          /\ DirOf(w) \notin PathsOf("read_dir")
          /\ \E f, g \in YamlFilesOf(v) :
                f \in PathsOf("open") /\ g \notin PathsOf("open")

----------------------------------------------------------------------------
\* the list command has returned
Listed == pc \in {"list_failed", "list_done"}
IsSecretSlot(slot) ==
    /\ slot.ok
    /\ slot.resource.kind \in {"Secret", "ExternalSecret", "PushSecret"}
\* the record a document slot is to give
RecordOf(slot) ==
    [file |-> slot.file,
     component_name |-> result.platforms[slot.pi].components[slot.ci].name,
     platform_name |-> result.platforms[slot.pi].name,
     resource_meta |-> [name |-> slot.resource.name]]
\* one record per decoded document of the three kinds, in stream order
ExpectedRecords(t) ==
    LET secretSlots == SelectSeq(t, IsSecretSlot)
    IN [i \in DOMAIN secretSlots |-> RecordOf(secretSlots[i])]

----------------------------------------------------------------------------
(* C15: the projection of a ManifestResource never fails and copies: every *)
(* resource the list command collected has its record, at the same         *)
(* position, whose file is the resource's file, whose component_name is    *)
(* the name of the resource's component, whose platform_name is the name   *)
(* of the resource's platform and whose resource_meta is the resource's    *)
(* metadata, the default one when the document had none.                   *)
C15_ProjectionCopiesTheFields ==
    pc = "list_done" =>
        /\ DOMAIN stdout.records = DOMAIN secrets
        /\ \A i \in DOMAIN secrets :
              /\ stdout.records[i].file = secrets[i].file
              /\ stdout.records[i].component_name = secrets[i].component.name
              /\ stdout.records[i].platform_name = secrets[i].platform.name
              /\ stdout.records[i].resource_meta.name = secrets[i].resource.name
              /\ DOMAIN stdout.records[i] =
                   {"file", "component_name", "platform_name", "resource_meta"}

\* several resources were projected, one of them of a document without
\* metadata
C15_Witness ==
    /\ pc = "list_done"
    /\ Len(stdout.records) >= 3
    /\ \E i, j \in DOMAIN stdout.records :
          /\ stdout.records[i].resource_meta.name = ""
          /\ stdout.records[j].resource_meta.name # ""
          /\ stdout.records[i].platform_name # stdout.records[j].platform_name

----------------------------------------------------------------------------
(* C16: in every corpus that SystemManifests::new returns, no two          *)
(* platforms have the same name and no two components of one platform have *)
(* the same name.                                                          *)
C16_NamesAreUnique ==
    (result.returned /\ result.ok) =>
        LET ps == result.platforms IN
        /\ \A i, j \in DOMAIN ps : i # j => ps[i].name # ps[j].name
        /\ \A p \in DOMAIN ps :
              \A i, j \in DOMAIN ps[p].components :
                  i # j => ps[p].components[i].name # ps[p].components[j].name

----------------------------------------------------------------------------
\* the three directories of the platform named n, in the order they are
\* validated
ConventionDirs(n) == <<environments(n), <<<<"clusters">>, n>>, manifests(n)>>
NotADirectory(path) == Lookup(fs, path).kind # "dir"

(* C17: the validation of a platform's three directories looks at them in  *)
(* the order environment, cluster, manifests and stops at the first that   *)
(* is missing or is not a directory: the error names that path, says which *)
(* of the two it is, and no later path is looked at; when all three are    *)
(* directories all three are looked at and the validation does not fail.   *)
C17_ValidationIsFailFast ==
    [][NewPlatform =>
         LET dirs == ConventionDirs(Head(pending))
             bad == {i \in 1..3 : NotADirectory(dirs[i])}
         IN IF bad = {}
            THEN /\ Len(StepOps) >= 3
                 /\ \A i \in 1..3 : StepOps[i] = Op("metadata", dirs[i])
                 /\ pc' = "failed" =>
                      result'.error[1].msg # "Failed to obtain platform directories"
            ELSE LET f == CHOOSE i \in bad : \A j \in bad : i <= j IN
                 /\ pc' = "failed"
                 /\ result'.error =
                      <<Msg("Failed to obtain platform directories", NoPath, NoIndex),
                        Msg(IF Lookup(fs, dirs[f]).kind = "missing"
                            THEN "Directory does not exist"
                            ELSE "Path exists but is not a directory",
                            dirs[f], NoIndex)>>
                 /\ StepOps = [i \in 1..f |-> Op("metadata", dirs[i])]
      ]_vars

\* the environment directory of a platform is a file and its manifests
\* directory is missing: the error is about the first, the second was
\* never looked at
C17_Witness ==
    /\ pc = "failed"
    /\ \E n \in {A, B} :
          /\ Lookup(fs, environments(n)).kind = "file"
          /\ Lookup(fs, manifests(n)).kind = "missing"
          /\ result.error = <<Msg("Failed to obtain platform directories", NoPath, NoIndex),
                              Msg("Path exists but is not a directory",
                                  environments(n), NoIndex)>>
          /\ Op("metadata", environments(n)) \in Range(fsops)
          /\ Op("metadata", manifests(n)) \notin Range(fsops)

----------------------------------------------------------------------------
\* the file handles over a log of operations: the files open at its end,
\* the most that were open at once, and whether a file was opened while
\* another was open
RECURSIVE Handles(_)
Handles(ops) ==
    IF ops = <<>> THEN [open |-> <<>>, most |-> 0, overlap |-> FALSE]
    ELSE LET h == Handles(SubSeq(ops, 1, Len(ops) - 1))
             o == ops[Len(ops)]
             node == Lookup(fs, o.path)
             opens == o.op = "open" /\ node.kind = "file" /\ node.openable
             now == IF opens THEN Append(h.open, o.path)
                    ELSE IF o.op = "close"
                    THEN SelectSeq(h.open, LAMBDA p : p # o.path)
                    ELSE h.open
         IN [open |-> now,
             most |-> IF Len(now) > h.most THEN Len(now) ELSE h.most,
             overlap |-> h.overlap \/ (opens /\ h.open # <<>>)]
\* the sequence is at its end or was dropped, by the list command or by
\* another consumer
Gone == pc \in {"exhausted", "dropped", "collected", "list_failed", "list_done"}

(* C18: at every point of a walk at most one manifest file is open; a file *)
(* is opened only when no other is open, the iterator of the file before   *)
(* it being dropped first; and no file is open once the sequence is at its *)
(* end or the consumer has dropped it, however far it had come.            *)
C18_AtMostOneFileOpen ==
    LET h == Handles(fsops) IN
    /\ h.most <= 1
    /\ ~h.overlap
    /\ Gone => h.open = <<>>

\* a consumer dropped the sequence while a file was open, after another
\* file had been read to its end: both were closed
C18_Witness ==
    /\ pc = "dropped"
    /\ fsops # <<>>
    /\ fsops[Len(fsops)].op = "close"
    /\ Len(out) < Len(DocumentSlots)
    /\ \E i \in DOMAIN fsops :
          /\ fsops[i].op = "close"
          /\ fsops[i].path # fsops[Len(fsops)].path

----------------------------------------------------------------------------
(* C19: the list command writes all or nothing.  When it has written, the  *)
(* whole stream was pulled and none of its items was an error.  When an    *)
(* item of the stream is an error the command fails: the error item is the *)
(* last item it pulled and the first error of the stream, it returns that  *)
(* error, and standard output was not written, whatever was collected.     *)
C19_ListIsAllOrNothing ==
    LET t == DocumentSlots IN
    /\ stdout.written =>
          /\ pc = "list_done"
          /\ Len(out) = Len(t)
          /\ \A i \in DOMAIN out : out[i].ok
    /\ (Listed /\ \E j \in DOMAIN t : ~t[j].ok) => pc = "list_failed"
    /\ pc = "list_failed" =>
          /\ ~stdout.written /\ stdout.records = <<>>
          /\ out # <<>>
          /\ ~out[Len(out)].ok
          /\ \A i \in 1..(Len(out) - 1) : out[i].ok
          /\ ~t[Len(out)].ok /\ \A j \in 1..(Len(out) - 1) : t[j].ok
          /\ exit = [returned |-> TRUE, ok |-> FALSE, error |-> out[Len(out)].error]

\* the command failed on an error item after it had collected secrets and
\* before it had pulled the rest of the stream
C19_Witness ==
    /\ pc = "list_failed"
    /\ secrets # <<>>
    /\ Len(out) < Len(DocumentSlots)
    /\ ~stdout.written

----------------------------------------------------------------------------
\* path is an entry of the listing of the directory dir
DirectChild(path, dir) ==
    /\ Len(path) = Len(dir) + 1
    /\ SubSeq(path, 1, Len(dir)) = dir
    /\ LET node == Lookup(fs, dir) IN
       /\ node.kind = "dir"
       /\ \E i \in DOMAIN node.entries :
             ~node.entries[i].err /\ node.entries[i].name = path[Len(path)]

(* C20: every success item of a walk has a consistent provenance: its      *)
(* platform is a platform of the corpus, its component is a component of   *)
(* that platform, with its directory under the platform's manifests        *)
(* directory, and its file is an entry of the component's manifests        *)
(* directory that is a regular file named *.yaml or *.yml.                 *)
C20_ProvenanceIsConsistent ==
    \A i \in DOMAIN out :
        out[i].ok =>
            /\ out[i].platform \in Range(result.platforms)
            /\ out[i].component \in Range(out[i].platform.components)
            /\ DirectChild(out[i].component.manifests_directory,
                           out[i].platform.manifests_directory)
            /\ DirectChild(out[i].file, out[i].component.manifests_directory)
            /\ IsYamlFile(out[i].file)

\* a walk came to its end with items of two platforms and of two
\* components of one platform
C20_Witness ==
    /\ pc = "exhausted"
    /\ \E i, j, k \in DOMAIN out :
          /\ out[i].ok /\ out[j].ok /\ out[k].ok
          /\ out[i].platform # out[j].platform
          /\ out[i].platform = out[k].platform
          /\ out[i].component # out[k].component

====
